---- MODULE Spec2Model ----
(***************************************************************************)
(* Model of src/reflective_agent.py: the validated refinement controller   *)
(* improved_multi_step_reflection, its two scorers, the keyword extractor  *)
(* and the entry points built on reflect_and_improve.  Texts are TLA+      *)
(* strings, handled character by character (Len, SubSeq and \o apply to    *)
(* strings in TLC).  Scores are exact                                      *)
(* rationals [num, den]; the thresholds 0.7 and 0.6 are compared by cross  *)
(* multiplication.  Within the bounds below no score of the code lies      *)
(* close enough to a threshold for float rounding to change a comparison.  *)
(***************************************************************************)
EXTENDS Integers, Sequences, FiniteSets, TLC

(***************************************************************************)
(* Characters and strings (Python str methods used by the code).           *)
(***************************************************************************)
UpperChars == "ABCDEFGHIJKLMNOPQRSTUVWXYZ"
LowerChars == "abcdefghijklmnopqrstuvwxyz"

\* the characters str.split() and str.strip() treat as whitespace
WhitespaceChars == {" ", "\t", "\n", "\r", "\f"}

\* the argument of word.strip('.,!?;:()[]{}"\'')
PunctuationChars == {".", ",", "!", "?", ";", ":", "(", ")", "[", "]", "{", "}", "\"", "'"}

CharAt(s, i) == SubSeq(s, i, i)

\* the lower-case letter of each upper-case letter
LowerOf ==
    [c \in {CharAt(UpperChars, i) : i \in 1..Len(UpperChars)} |->
        CharAt(LowerChars, CHOOSE i \in 1..Len(UpperChars) : CharAt(UpperChars, i) = c)]

\* str.lower() of one character
LowerChar(c) == IF c \in DOMAIN LowerOf THEN LowerOf[c] ELSE c

\* str.lower() of the characters lo..hi of s (halving keeps the evaluation
\* shallow on long texts)
RECURSIVE LowerRange(_, _, _)
LowerRange(s, lo, hi) ==
    IF lo > hi THEN ""
    ELSE IF lo = hi THEN LowerChar(CharAt(s, lo))
    ELSE LET mid == (lo + hi) \div 2
         IN  LowerRange(s, lo, mid) \o LowerRange(s, mid + 1, hi)

\* str.lower()
Lower(s) == LowerRange(s, 1, Len(s))

\* str.strip(chars): drop the leading and trailing characters that are in chars
Strip(s, chars) ==
    LET keep == {i \in 1..Len(s) : CharAt(s, i) \notin chars}
    IN  IF keep = {} THEN ""
        ELSE LET lo == CHOOSE i \in keep : \A j \in keep : i <= j
                 hi == CHOOSE i \in keep : \A j \in keep : j <= i
             IN  SubSeq(s, lo, hi)

\* str.split(): the maximal runs of non-whitespace characters (as a set: the
\* only caller collects them into a set)
Split(s) ==
    LET n == Len(s)
        ws == {i \in 1..n : CharAt(s, i) \in WhitespaceChars}
        starts == {i \in (1..n) \ ws : i = 1 \/ (i - 1) \in ws}
        ends == {i \in (1..n) \ ws : i = n \/ (i + 1) \in ws}
        EndOf(i) == CHOOSE k \in ends : k >= i /\ \A j \in ends : j >= i => k <= j
    IN  {SubSeq(s, i, EndOf(i)) : i \in starts}

\* phrase in text
Contains(text, phrase) ==
    \E i \in 1..(Len(text) - Len(phrase) + 1) :
        SubSeq(text, i, i + Len(phrase) - 1) = phrase

(***************************************************************************)
(* Scores: exact rationals.  Score(a, b) stands for the float a / b.       *)
(***************************************************************************)
Score(a, b) == [num |-> a, den |-> b]
ScoreZero == Score(0, 1)
ScoreOne == Score(1, 1)

\* the 0.7 of "context_score < 0.7" / ">= 0.7", in tenths
ContextThresholdTenths == 7
\* the 0.6 of "content_score < 0.6" / ">= 0.6", in tenths
ContentThresholdTenths == 6
\* the 0.3 of "off_topic_count * 0.3", in tenths
PenaltyTenths == 3
\* the 1.5 of "relevance_score * 1.5", as BoostNum / BoostDen
BoostNum == 3
BoostDen == 2
\* the 50 of "len(response.strip()) < 50"
MinContentLength == 50
\* the 3 of "len(word) > 3"
MinKeywordLength == 3

\* score >= t / 10
ScoreGE(score, tenths) == score.num * 10 >= tenths * score.den
\* score < t / 10
ScoreLT(score, tenths) == ~ScoreGE(score, tenths)

(***************************************************************************)
(* extract_keywords                                                        *)
(***************************************************************************)
stop_words ==
    {"the", "a", "an", "and", "or", "but", "in", "on", "at", "to", "for", "of",
     "with", "by", "is", "are", "was", "were", "be", "been", "have", "has",
     "had", "do", "does", "did", "will", "would", "could", "should", "may",
     "might", "can", "this", "that", "these", "those", "i", "you", "he", "she",
     "it", "we", "they", "me", "him", "her", "us", "them"}

\* word.strip('.,!?;:()[]{}"\'').lower()
NormalizeWord(word) == Lower(Strip(word, PunctuationChars))

\* variant: the length is tested before the punctuation is stripped
extract_keywords_LengthBeforeStrip(text) ==
    {w \in {NormalizeWord(word) : word \in {x \in Split(text) : Len(x) > MinKeywordLength}} :
        w \notin stop_words}

extract_keywords(text) ==
    {w \in {NormalizeWord(word) : word \in Split(text)} :
        Len(w) > MinKeywordLength /\ w \notin stop_words}

(***************************************************************************)
(* validate_context_maintenance                                            *)
(***************************************************************************)
\* variant: relevance_score * 1.5 without min(..., 1.0)
validate_context_maintenance_NoCap(original_prompt, response) ==
    LET original_keywords == extract_keywords(Lower(original_prompt))
        response_keywords == extract_keywords(Lower(response))
        c == Cardinality(original_keywords \cap response_keywords)
        n == Cardinality(original_keywords)
    IN  IF original_keywords = {} THEN ScoreOne
        ELSE Score(c * BoostNum, n * BoostDen)

\* variant: the overlap divided by the keywords of both arguments
validate_context_maintenance_Symmetric(original_prompt, response) ==
    LET original_keywords == extract_keywords(Lower(original_prompt))
        response_keywords == extract_keywords(Lower(response))
        c == Cardinality(original_keywords \cap response_keywords)
        n == Cardinality(original_keywords \cup response_keywords)
    IN  IF original_keywords = {} THEN ScoreOne
        ELSE IF c * BoostNum >= n * BoostDen THEN ScoreOne
        ELSE Score(c * BoostNum, n * BoostDen)

validate_context_maintenance(original_prompt, response) ==
    LET original_keywords == extract_keywords(Lower(original_prompt))
        response_keywords == extract_keywords(Lower(response))
        common_keywords == original_keywords \cap response_keywords
        c == Cardinality(common_keywords)
        n == Cardinality(original_keywords)
    IN  IF original_keywords = {} THEN ScoreOne
        \* min(relevance_score * 1.5, 1.0)
        ELSE IF c * BoostNum >= n * BoostDen THEN ScoreOne
        ELSE Score(c * BoostNum, n * BoostDen)

(***************************************************************************)
(* validate_content_quality                                                *)
(***************************************************************************)
off_topic_phrases ==
    {"feedback", "suggestion", "improve the document", "revise the",
     "thank you for the feedback", "this response is excellent",
     "minor suggestions", "why this revised response"}

\* variant: a matched phrase that lies inside another matched phrase of the
\* list is not counted
validate_content_quality_LongestMatchOnly(response) ==
    IF response = "" \/ Len(Strip(response, WhitespaceChars)) < MinContentLength
    THEN ScoreZero
    ELSE LET response_lower == Lower(response)
             matched == {phrase \in off_topic_phrases : Contains(response_lower, phrase)}
             off_topic_count ==
                 Cardinality({phrase \in matched :
                                 \A longer \in matched \ {phrase} :
                                     ~Contains(longer, phrase)})
         IN  IF off_topic_count > 0
             THEN IF 10 - off_topic_count * PenaltyTenths > 0
                  THEN Score(10 - off_topic_count * PenaltyTenths, 10)
                  ELSE ScoreZero
             ELSE ScoreOne

\* variant: one penalty however many phrases match
validate_content_quality_SinglePenalty(response) ==
    IF response = "" \/ Len(Strip(response, WhitespaceChars)) < MinContentLength
    THEN ScoreZero
    ELSE IF \E phrase \in off_topic_phrases : Contains(Lower(response), phrase)
         THEN Score(10 - PenaltyTenths, 10)
         ELSE ScoreOne

\* variant: 1.0 - (off_topic_count * 0.3) without max(0.0, ...)
validate_content_quality_NoFloor(response) ==
    IF response = "" \/ Len(Strip(response, WhitespaceChars)) < MinContentLength
    THEN ScoreZero
    ELSE LET off_topic_count ==
                 Cardinality({phrase \in off_topic_phrases :
                                 Contains(Lower(response), phrase)})
         IN  IF off_topic_count > 0
             THEN Score(10 - off_topic_count * PenaltyTenths, 10)
             ELSE ScoreOne

validate_content_quality(response) ==
    IF response = "" \/ Len(Strip(response, WhitespaceChars)) < MinContentLength
    THEN ScoreZero
    ELSE LET response_lower == Lower(response)
             off_topic_count ==
                 Cardinality({phrase \in off_topic_phrases :
                                 Contains(response_lower, phrase)})
         IN  IF off_topic_count > 0
             THEN IF 10 - off_topic_count * PenaltyTenths > 0
                  THEN Score(10 - off_topic_count * PenaltyTenths, 10)
                  ELSE ScoreZero
             ELSE ScoreOne

(***************************************************************************)
(* Bounds and inputs of the model.                                         *)
(***************************************************************************)
\* largest value of the steps argument
MaxSteps == 3
\* largest value of the max_iterations argument
MaxIter == 3

\* prompt arguments: one with the keywords {explain, machine, learning,
\* basics}, one without any keyword
Prompts == {"Explain machine learning basics.", "Why is it so?"}

\* on topic, long, free of the listed phrases
TextGoodA == "Machine learning basics: models learn patterns from labelled data."
TextGoodB == "Explain it simply: machine learning finds structure in examples."
\* long and phrase-free, shares no keyword with the first prompt
TextOffTopic == "Bananas are yellow fruits that grow in warm tropical climates."
\* on topic and long, matches "feedback" and "thank you for the feedback"
TextMeta == "Thank you for the feedback! Machine learning basics are explained."

\* the texts the Generation Service may return
ServiceTexts == {TextGoodA, TextGoodB, TextOffTopic, TextMeta}

\* validate_context_maintenance and validate_content_quality of each
\* service text, computed once
ContextScoreOf ==
    [p \in Prompts |-> [t \in ServiceTexts |-> validate_context_maintenance(p, t)]]
ContentScoreOf == [t \in ServiceTexts |-> validate_content_quality(t)]

(***************************************************************************)
(* State: the Generation Service and the environment, one invocation of    *)
(* improved_multi_step_reflection, one invocation of one of the other      *)
(* entry points, one application of each pure function, and two            *)
(* concurrent invocations of improved_multi_step_reflection.               *)
(***************************************************************************)
VARIABLES
    api_key,            \* os.getenv('GOOGLE_API_KEY') is set
    prompt,             \* argument
    steps,              \* argument
    max_iterations,     \* argument
    pc,                 \* position of the invocation
    step_num,           \* loop variable of "for step_num in range(1, steps + 1)"
    current_response,   \* local
    iteration_count,    \* local
    results,            \* the dict built and returned
    in_flight,          \* contents of the outstanding generate_content call
    calls,              \* the Generation Service's record of finished calls
    clients,            \* number of genai.Client objects constructed
    entry,              \* the entry point invoked
    sargs,              \* arguments of reflect_and_improve, multi_step_reflection,
                        \* compare_responses or batch_reflect
    spc,                \* position of that invocation
    initial_text,       \* local of reflect_and_improve
    n_done,                \* cycles (multi_step_reflection) or prompts (batch_reflect) done
    ms_current,         \* current_response of multi_step_reflection
    batch_results,      \* results of batch_reflect
    ret,                \* value returned to the caller
    error,              \* exception that reached the caller
    q_parts,            \* the fragments the scored response is made of
    q_pc,               \* position of the application of validate_content_quality
    q_score,            \* its result
    k_words,            \* the tokens the text given to extract_keywords is made of
    k_pc,               \* position of the application of extract_keywords
    k_keywords,         \* its result
    r_original,         \* the tokens of the first argument of validate_context_maintenance
    r_response,         \* the tokens of its second argument
    r_pc,               \* position of its application
    r_score,            \* validate_context_maintenance(original, response)
    r_back,             \* validate_context_maintenance(response, original)
    runs                \* two concurrent invocations of improved_multi_step_reflection:
                        \* the arguments, locals and outstanding call of each

\* the other entry points' invocation
flow == <<entry, sargs, spc, initial_text, n_done, ms_current, batch_results, ret, error>>

\* the application of validate_content_quality
quality == <<q_parts, q_pc, q_score>>

\* the application of extract_keywords
keywords == <<k_words, k_pc, k_keywords>>

\* the applications of validate_context_maintenance
relevance == <<r_original, r_response, r_pc, r_score, r_back>>

\* the concurrent invocations
pair == <<runs>>

\* the pure functions applied on their own
scorer == <<quality, keywords, relevance>>

others == <<flow, scorer, pair>>

\* the invocation of improved_multi_step_reflection
controller == <<prompt, steps, max_iterations, pc, step_num, current_response,
                iteration_count, results>>

vars == <<api_key, prompt, steps, max_iterations, pc, step_num,
          current_response, iteration_count, results, in_flight, calls,
          clients, flow, scorer, pair>>

args == <<api_key, prompt, steps, max_iterations>>

NoCall == [template |-> "none", topic |-> "", current |-> ""]

\* the f-string of lines 81-102: the template with its two holes filled
enhanced_reflection_prompt(topic, current) ==
    [template |-> "enhanced_reflection", topic |-> topic, current |-> current]

\* the f-string of lines 122-130
recovery_prompt(topic, current) ==
    [template |-> "recovery", topic |-> topic, current |-> current]

\* the dict of lines 65-72
NewResults(p) ==
    [original_prompt |-> p, steps |-> <<>>, final_response |-> "",
     context_maintained |-> TRUE, validation_passed |-> TRUE,
     total_iterations |-> 0]

\* context_score >= 0.7 and content_score >= 0.6
Passes(context_score, content_score) ==
    /\ ScoreGE(context_score, ContextThresholdTenths)
    /\ ScoreGE(content_score, ContentThresholdTenths)

\* variant: recovery only when both scores are low ("and" for "or")
NeedsRecovery_And(context_score, content_score) ==
    /\ ScoreLT(context_score, ContextThresholdTenths)
    /\ ScoreLT(content_score, ContentThresholdTenths)

\* context_score < 0.7 or content_score < 0.6
NeedsRecovery(context_score, content_score) ==
    \/ ScoreLT(context_score, ContextThresholdTenths)
    \/ ScoreLT(content_score, ContentThresholdTenths)

\* variant: the step number counted from 0
StepResult_ZeroBased(num, input, output, context_score, content_score) ==
    [step_number |-> num - 1,
     input_length |-> Len(input),
     output_length |-> Len(output),
     context_score |-> context_score,
     content_score |-> content_score,
     input_content |-> input,
     output_content |-> output,
     validation_passed |-> Passes(context_score, content_score)]

\* the dict of lines 143-152
StepResult(num, input, output, context_score, content_score) ==
    [step_number |-> num,
     input_length |-> Len(input),
     output_length |-> Len(output),
     context_score |-> context_score,
     content_score |-> content_score,
     input_content |-> input,
     output_content |-> output,
     validation_passed |-> Passes(context_score, content_score)]

\* variant: any() for all()
Finalize_Any(res, response, count) ==
    LET maintained == \E i \in 1..Len(res.steps) : res.steps[i].validation_passed
    IN  [res EXCEPT !.final_response = response,
                    !.total_iterations = count,
                    !.context_maintained = maintained,
                    !.validation_passed = maintained]

\* lines 172-177: the fields set after the loop
Finalize(res, response, count) ==
    LET maintained == \A i \in 1..Len(res.steps) : res.steps[i].validation_passed
    IN  [res EXCEPT !.final_response = response,
                    !.total_iterations = count,
                    !.context_maintained = maintained,
                    !.validation_passed = maintained]

\* the Generation Service's record of one finished call
CallRecord(outcome, text) ==
    [round |-> step_num, contents |-> in_flight, outcome |-> outcome, text |-> text]

\* contents of a call whose prompt is passed on as it is (line 30)
Verbatim(text) == [template |-> "verbatim", text |-> text]

\* the f-string of line 35
reflection_prompt(text) == [template |-> "reflection", initial_text |-> text]

\* the f-string of lines 278-286
comparison_prompt(initial, improved) ==
    [template |-> "comparison", initial |-> initial, improved |-> improved]

NoArgs == [prompt |-> "", steps |-> 0, initial |-> "", improved |-> "", prompts |-> <<>>]

NoValue == [kind |-> "none"]

\* no application of validate_content_quality
QualityIdle ==
    /\ q_parts = <<>>
    /\ q_pc = "idle"
    /\ q_score = ScoreZero

\* no application of extract_keywords
KeywordsIdle ==
    /\ k_words = <<>>
    /\ k_pc = "idle"
    /\ k_keywords = {}

\* no application of validate_context_maintenance
RelevanceIdle ==
    /\ r_original = <<>>
    /\ r_response = <<>>
    /\ r_pc = "idle"
    /\ r_score = ScoreZero
    /\ r_back = ScoreZero

\* no concurrent invocations
PairIdle == runs = <<>>

\* no pure function applied on its own
ScorerIdle == QualityIdle /\ KeywordsIdle /\ RelevanceIdle

\* no invocation of another entry point
FlowIdle ==
    /\ sargs = NoArgs
    /\ spc = "idle"
    /\ initial_text = ""
    /\ n_done = 0
    /\ ms_current = ""
    /\ batch_results = <<>>
    /\ ret = NoValue
    /\ error = "none"

\* no invocation of improved_multi_step_reflection
ControllerIdle ==
    /\ prompt = ""
    /\ steps = 0
    /\ max_iterations = 0
    /\ pc = "idle"
    /\ step_num = 0
    /\ current_response = ""
    /\ iteration_count = 0
    /\ results = NewResults("")

\* improved_multi_step_reflection invoked, nothing executed yet
ControllerInit ==
    /\ prompt \in Prompts
    /\ steps \in 0..MaxSteps
    /\ max_iterations \in 0..MaxIter
    /\ pc = "entry"
    /\ step_num = 0
    /\ current_response = ""
    /\ iteration_count = 0
    /\ results = NewResults("")

\* the environment and a Generation Service that has not been called
ServiceInit ==
    /\ api_key \in BOOLEAN
    /\ in_flight = NoCall
    /\ calls = <<>>
    /\ clients = 0

Init ==
    /\ ServiceInit
    /\ PairIdle
    /\ ControllerInit
    /\ entry = "improved_multi_step_reflection"
    /\ FlowIdle
    /\ ScorerIdle

\* variant: the credential check sits inside the loop's try block, whose
\* handler swallows the ValueError
Enter_KeyCheckedInTry ==
    /\ pc = "entry"
    /\ IF ~api_key
       THEN /\ pc' = "returned"
            /\ results' = Finalize(NewResults(prompt), prompt, 0)
            /\ current_response' = prompt
            /\ UNCHANGED clients
       ELSE /\ pc' = "loop"
            /\ clients' = clients + 1
            /\ results' = NewResults(prompt)
            /\ current_response' = prompt
    /\ UNCHANGED <<args, others, step_num, iteration_count, in_flight, calls>>

\* lines 58-75: the credential check and the initialisation
Enter ==
    /\ pc = "entry"
    /\ IF ~api_key
       THEN /\ pc' = "raised"
            /\ UNCHANGED <<results, current_response, clients>>
       ELSE /\ pc' = "loop"
            /\ clients' = clients + 1
            /\ results' = NewResults(prompt)
            /\ current_response' = prompt
    /\ UNCHANGED <<args, others, step_num, iteration_count, in_flight, calls>>

\* variant: range(1, steps) for range(1, steps + 1)
LoopHead_OffByOne ==
    /\ pc = "loop"
    /\ IF step_num + 1 < steps
       THEN /\ step_num' = step_num + 1
            /\ in_flight' = enhanced_reflection_prompt(prompt, current_response)
            /\ pc' = "generate"
            /\ UNCHANGED results
       ELSE /\ results' = Finalize(results, current_response, iteration_count)
            /\ pc' = "returned"
            /\ UNCHANGED <<step_num, in_flight>>
    /\ UNCHANGED <<args, clients, others, current_response, iteration_count, calls>>

\* line 77 and lines 81-109: the next value of step_num and the Generate
\* call, or the end of the range and lines 172-177
LoopHead ==
    /\ pc = "loop"
    /\ IF step_num + 1 <= steps
       THEN /\ step_num' = step_num + 1
            /\ in_flight' = enhanced_reflection_prompt(prompt, current_response)
            /\ pc' = "generate"
            /\ UNCHANGED results
       ELSE /\ results' = Finalize(results, current_response, iteration_count)
            /\ pc' = "returned"
            /\ UNCHANGED <<step_num, in_flight>>
    /\ UNCHANGED <<args, clients, others, current_response, iteration_count, calls>>

\* variant: "iteration_count > max_iterations" for ">="
Accept_LimitOffByOne(improved_response, context_score, content_score) ==
    LET step_result == StepResult(step_num, current_response, improved_response,
                                  context_score, content_score)
        appended == [results EXCEPT !.steps = Append(@, step_result)]
    IN  /\ current_response' = improved_response
        /\ iteration_count' = iteration_count + 1
        /\ IF iteration_count + 1 > max_iterations
           THEN /\ results' = Finalize(appended, improved_response, iteration_count + 1)
                /\ pc' = "returned"
           ELSE /\ results' = appended
                /\ pc' = "loop"

\* variant: line 155 missing, the running response is never replaced
Accept_KeepsCurrent(improved_response, context_score, content_score) ==
    LET step_result == StepResult(step_num, current_response, improved_response,
                                  context_score, content_score)
        appended == [results EXCEPT !.steps = Append(@, step_result)]
    IN  /\ current_response' = current_response
        /\ iteration_count' = iteration_count + 1
        /\ IF iteration_count + 1 >= max_iterations
           THEN /\ results' = Finalize(appended, current_response, iteration_count + 1)
                /\ pc' = "returned"
           ELSE /\ results' = appended
                /\ pc' = "loop"

\* variant: the thresholds gate the round, a failing text is not accepted
Accept_Gated(improved_response, context_score, content_score) ==
    LET step_result == StepResult(step_num, current_response, improved_response,
                                  context_score, content_score)
        appended == [results EXCEPT !.steps = Append(@, step_result)]
    IN  IF Passes(context_score, content_score)
        THEN /\ current_response' = improved_response
             /\ iteration_count' = iteration_count + 1
             /\ IF iteration_count + 1 >= max_iterations
                THEN /\ results' = Finalize(appended, improved_response, iteration_count + 1)
                     /\ pc' = "returned"
                ELSE /\ results' = appended
                     /\ pc' = "loop"
        ELSE /\ pc' = "loop"
             /\ UNCHANGED <<results, current_response, iteration_count>>

\* lines 143-165, then lines 172-177 when the iteration limit breaks the loop
Accept(improved_response, context_score, content_score) ==
    LET step_result == StepResult(step_num, current_response, improved_response,
                                  context_score, content_score)
        appended == [results EXCEPT !.steps = Append(@, step_result)]
    IN  /\ current_response' = improved_response
        /\ iteration_count' = iteration_count + 1
        /\ IF iteration_count + 1 >= max_iterations
           THEN /\ results' = Finalize(appended, improved_response, iteration_count + 1)
                /\ pc' = "returned"
           ELSE /\ results' = appended
                /\ pc' = "loop"

\* variant: the handler returns the dict as it is, skipping lines 172-177
Abort_ReturnsEarly ==
    /\ results' = results
    /\ pc' = "returned"
    /\ UNCHANGED <<current_response, iteration_count>>

\* variant: the failed round is counted as an iteration
Abort_CountsFailedRound ==
    /\ results' = Finalize(results, current_response, iteration_count + 1)
    /\ pc' = "returned"
    /\ iteration_count' = iteration_count + 1
    /\ UNCHANGED current_response

\* lines 167-170, then lines 172-177: "except Exception" breaks the loop
Abort ==
    /\ results' = Finalize(results, current_response, iteration_count)
    /\ pc' = "returned"
    /\ UNCHANGED <<current_response, iteration_count>>

\* lines 106-140: the Generate call returns a text
\* variant: the recovery prompt is built from the candidate that failed
GenerateReturns_RecoversFromCandidate(text) ==
    /\ pc = "generate"
    /\ calls' = Append(calls, CallRecord("text", text))
    /\ LET context_score == ContextScoreOf[prompt][text]
           content_score == ContentScoreOf[text]
       IN  IF NeedsRecovery(context_score, content_score)
           THEN /\ in_flight' = recovery_prompt(prompt, text)
                /\ pc' = "recovery"
                /\ UNCHANGED <<results, current_response, iteration_count>>
           ELSE /\ in_flight' = NoCall
                /\ Accept(text, context_score, content_score)
    /\ UNCHANGED <<args, clients, others, step_num>>

\* variant: the candidate is stored before the recovery is attempted
GenerateReturns_StoresBeforeRecover(text) ==
    /\ pc = "generate"
    /\ calls' = Append(calls, CallRecord("text", text))
    /\ LET context_score == ContextScoreOf[prompt][text]
           content_score == ContentScoreOf[text]
       IN  IF NeedsRecovery(context_score, content_score)
           THEN /\ in_flight' = recovery_prompt(prompt, current_response)
                /\ pc' = "recovery"
                /\ results' = [results EXCEPT !.steps =
                                  Append(@, StepResult(step_num, current_response, text,
                                                       context_score, content_score))]
                /\ UNCHANGED <<current_response, iteration_count>>
           ELSE /\ in_flight' = NoCall
                /\ Accept(text, context_score, content_score)
    /\ UNCHANGED <<args, clients, others, step_num>>

\* variant: relevance scored against the running response
GenerateReturns_ScoresAgainstCurrent(text) ==
    /\ pc = "generate"
    /\ calls' = Append(calls, CallRecord("text", text))
    /\ LET context_score == validate_context_maintenance(current_response, text)
           content_score == validate_content_quality(text)
       IN  IF NeedsRecovery(context_score, content_score)
           THEN /\ in_flight' = recovery_prompt(prompt, current_response)
                /\ pc' = "recovery"
                /\ UNCHANGED <<results, current_response, iteration_count>>
           ELSE /\ in_flight' = NoCall
                /\ Accept(text, context_score, content_score)
    /\ UNCHANGED <<args, clients, others, step_num>>

GenerateReturns(text) ==
    /\ pc = "generate"
    /\ calls' = Append(calls, CallRecord("text", text))
    /\ LET context_score == ContextScoreOf[prompt][text]
           content_score == ContentScoreOf[text]
       IN  IF NeedsRecovery(context_score, content_score)
           THEN /\ in_flight' = recovery_prompt(prompt, current_response)
                /\ pc' = "recovery"
                /\ UNCHANGED <<results, current_response, iteration_count>>
           ELSE /\ in_flight' = NoCall
                /\ Accept(text, context_score, content_score)
    /\ UNCHANGED <<args, clients, others, step_num>>

\* variant: lines 139-140 missing, the scores of the rejected candidate stay
RecoveryReturns_NoRevalidate(text) ==
    /\ pc = "recovery"
    /\ calls' = Append(calls, CallRecord("text", text))
    /\ in_flight' = NoCall
    /\ Accept(text, validate_context_maintenance(prompt, calls[Len(calls)].text),
              validate_content_quality(calls[Len(calls)].text))
    /\ UNCHANGED <<args, clients, others, step_num>>

\* lines 132-140: the Recover call returns a text
\* variant: the recovery is attempted again while the text fails validation
RecoveryReturns_RetriesUntilValid(text) ==
    /\ pc = "recovery"
    /\ calls' = Append(calls, CallRecord("text", text))
    /\ LET context_score == ContextScoreOf[prompt][text]
           content_score == ContentScoreOf[text]
       IN  IF NeedsRecovery(context_score, content_score)
           THEN /\ in_flight' = recovery_prompt(prompt, current_response)
                /\ pc' = "recovery"
                /\ UNCHANGED <<results, current_response, iteration_count>>
           ELSE /\ in_flight' = NoCall
                /\ Accept(text, context_score, content_score)
    /\ UNCHANGED <<args, clients, others, step_num>>

RecoveryReturns(text) ==
    /\ pc = "recovery"
    /\ calls' = Append(calls, CallRecord("text", text))
    /\ in_flight' = NoCall
    /\ Accept(text, ContextScoreOf[prompt][text], ContentScoreOf[text])
    /\ UNCHANGED <<args, clients, others, step_num>>

\* generate_content raises (either call)
\* variant: when the recovery call raises, the run falls back on the candidate
\* of the round
CallRaises_KeepsCandidate ==
    /\ pc \in {"generate", "recovery"}
    /\ calls' = Append(calls, CallRecord("raise", ""))
    /\ in_flight' = NoCall
    /\ IF pc = "recovery"
       THEN /\ results' = Finalize(results, calls[Len(calls)].text, iteration_count)
            /\ pc' = "returned"
            /\ UNCHANGED <<current_response, iteration_count>>
       ELSE Abort
    /\ UNCHANGED <<args, clients, others, step_num>>

CallRaises ==
    /\ pc \in {"generate", "recovery"}
    /\ calls' = Append(calls, CallRecord("raise", ""))
    /\ in_flight' = NoCall
    /\ Abort
    /\ UNCHANGED <<args, clients, others, step_num>>

\* the response carries no text (response.text is None): response.lower()
\* raises inside validate_context_maintenance, lines 113/139 and 192
\* variant: the handler catches the service's errors only, the scoring error
\* reaches the caller
CallMalformed_Propagates ==
    /\ pc \in {"generate", "recovery"}
    /\ calls' = Append(calls, CallRecord("malformed", ""))
    /\ in_flight' = NoCall
    /\ pc' = "raised"
    /\ UNCHANGED <<results, current_response, iteration_count>>
    /\ UNCHANGED <<args, clients, others, step_num>>

CallMalformed ==
    /\ pc \in {"generate", "recovery"}
    /\ calls' = Append(calls, CallRecord("malformed", ""))
    /\ in_flight' = NoCall
    /\ Abort
    /\ UNCHANGED <<args, clients, others, step_num>>

Next ==
    \/ Enter
    \/ LoopHead
    \/ \E text \in ServiceTexts : GenerateReturns(text)
    \/ \E text \in ServiceTexts : RecoveryReturns(text)
    \/ CallRaises
    \/ CallMalformed

Spec == Init /\ [][Next]_vars

\* the outstanding generate_content call returns or raises
ServiceAnswers ==
    \/ \E text \in ServiceTexts : GenerateReturns(text)
    \/ \E text \in ServiceTexts : RecoveryReturns(text)
    \/ CallRaises
    \/ CallMalformed

\* the invocation keeps executing its statements, and every call of the
\* Generation Service eventually returns or raises
SpecLive ==
    /\ Init
    /\ [][Next]_vars
    /\ WF_vars(Enter)
    /\ WF_vars(LoopHead)
    /\ WF_vars(ServiceAnswers)

(***************************************************************************)
(* The other entry points: reflect_and_improve, multi_step_reflection,     *)
(* compare_responses and batch_reflect.  The last three call               *)
(* reflect_and_improve and handle no exception.  A response without text   *)
(* is not modelled here: every finished call returned a text or raised.    *)
(***************************************************************************)
\* longest prompts argument of batch_reflect
MaxBatch == 3

\* the texts the Generation Service may return to reflect_and_improve
FlowTexts == {TextGoodA, TextMeta}

\* the initial and improved arguments of compare_responses
CompareTexts == {TextGoodB, TextOffTopic}

EntryPoints ==
    {"reflect_and_improve", "multi_step_reflection", "compare_responses",
     "batch_reflect", "improved_multi_step_reflection"}

\* the sequences over S of length 0..n
RECURSIVE SeqsUpTo(_, _)
SeqsUpTo(S, n) ==
    IF n = 0 THEN {<<>>}
    ELSE LET shorter == SeqsUpTo(S, n - 1)
         IN  shorter \cup {Append(q, x) : q \in shorter, x \in S}

\* one of the four entry points invoked; lines 259 and 300 are executed
FlowInit ==
    /\ entry \in EntryPoints \ {"improved_multi_step_reflection"}
    /\ sargs \in
         CASE entry = "reflect_and_improve" ->
                {[NoArgs EXCEPT !.prompt = p] : p \in Prompts}
           [] entry = "multi_step_reflection" ->
                {[NoArgs EXCEPT !.prompt = p, !.steps = n] : p \in Prompts, n \in 0..MaxSteps}
           [] entry = "compare_responses" ->
                {[NoArgs EXCEPT !.initial = a, !.improved = b] :
                    a \in CompareTexts, b \in CompareTexts}
           [] entry = "batch_reflect" ->
                {[NoArgs EXCEPT !.prompts = q] : q \in SeqsUpTo(Prompts, MaxBatch)}
    /\ spc = "caller"
    /\ initial_text = ""
    /\ n_done = 0
    /\ ms_current = sargs.prompt
    /\ batch_results = <<>>
    /\ ret = NoValue
    /\ error = "none"

\* the Generation Service's record of one finished call of reflect_and_improve;
\* round is the cycle or the prompt the call belongs to, counted from 1
FlowCallRecord(outcome, text) ==
    [round |-> n_done + 1, contents |-> in_flight, outcome |-> outcome, text |-> text]

\* lines 19-31 of reflect_and_improve(p): the credential check, the client and
\* the first call
ReflectBegin(p) ==
    IF ~api_key
    THEN /\ spc' = "raised"
         /\ error' = "ValueError"
         /\ UNCHANGED <<clients, in_flight>>
    ELSE /\ clients' = clients + 1
         /\ in_flight' = p
         /\ spc' = "first_call"
         /\ UNCHANGED error

\* variant: results.insert(0, ...) for results.append(...)
ReflectReturn_BatchPrepends(initial, improved) ==
    CASE entry \in {"reflect_and_improve", "compare_responses"} ->
            /\ ret' = [kind |-> "pair", initial |-> initial, improved |-> improved]
            /\ spc' = "returned"
            /\ UNCHANGED <<n_done, ms_current, batch_results>>
      [] entry = "multi_step_reflection" ->
            /\ ms_current' = improved
            /\ n_done' = n_done + 1
            /\ spc' = "caller"
            /\ UNCHANGED <<ret, batch_results>>
      [] entry = "batch_reflect" ->
            /\ batch_results' = <<[prompt |-> sargs.prompts[n_done + 1],
                                   initial |-> initial,
                                   improved |-> improved]>> \o batch_results
            /\ n_done' = n_done + 1
            /\ spc' = "caller"
            /\ UNCHANGED <<ret, ms_current>>

\* line 42, and what the caller of reflect_and_improve does with the pair:
\* lines 262-263 and lines 303-308
ReflectReturn(initial, improved) ==
    CASE entry \in {"reflect_and_improve", "compare_responses"} ->
            /\ ret' = [kind |-> "pair", initial |-> initial, improved |-> improved]
            /\ spc' = "returned"
            /\ UNCHANGED <<n_done, ms_current, batch_results>>
      [] entry = "multi_step_reflection" ->
            /\ ms_current' = improved
            /\ n_done' = n_done + 1
            /\ spc' = "caller"
            /\ UNCHANGED <<ret, batch_results>>
      [] entry = "batch_reflect" ->
            /\ batch_results' = Append(batch_results,
                                       [prompt |-> sargs.prompts[n_done + 1],
                                        initial |-> initial,
                                        improved |-> improved])
            /\ n_done' = n_done + 1
            /\ spc' = "caller"
            /\ UNCHANGED <<ret, ms_current>>

\* lines 8-31, invoked by the caller
reflect_and_improve ==
    /\ spc = "caller"
    /\ entry = "reflect_and_improve"
    /\ ReflectBegin(Verbatim(sargs.prompt))
    /\ UNCHANGED <<api_key, calls, controller, scorer, pair, entry, sargs, initial_text,
                   n_done, ms_current, batch_results, ret>>

\* variant: the two texts fill each other's place in the template
compare_responses_SwapsArguments ==
    /\ spc = "caller"
    /\ entry = "compare_responses"
    /\ ReflectBegin(comparison_prompt(sargs.improved, sargs.initial))
    /\ UNCHANGED <<api_key, calls, controller, scorer, pair, entry, sargs, initial_text,
                   n_done, ms_current, batch_results, ret>>

\* lines 278-287
compare_responses ==
    /\ spc = "caller"
    /\ entry = "compare_responses"
    /\ ReflectBegin(comparison_prompt(sargs.initial, sargs.improved))
    /\ UNCHANGED <<api_key, calls, controller, scorer, pair, entry, sargs, initial_text,
                   n_done, ms_current, batch_results, ret>>

\* variant: every cycle starts again from the caller's prompt
multi_step_reflection_RestartsFromPrompt ==
    /\ spc = "caller"
    /\ entry = "multi_step_reflection"
    /\ IF n_done < sargs.steps
       THEN /\ ReflectBegin(Verbatim(sargs.prompt))
            /\ UNCHANGED ret
       ELSE /\ ret' = [kind |-> "text", text |-> ms_current]
            /\ spc' = "returned"
            /\ UNCHANGED <<clients, in_flight, error>>
    /\ UNCHANGED <<api_key, calls, controller, scorer, pair, entry, sargs, initial_text,
                   n_done, ms_current, batch_results>>

\* lines 260-264: the next cycle, or the return after the last
multi_step_reflection ==
    /\ spc = "caller"
    /\ entry = "multi_step_reflection"
    /\ IF n_done < sargs.steps
       THEN /\ ReflectBegin(Verbatim(ms_current))
            /\ UNCHANGED ret
       ELSE /\ ret' = [kind |-> "text", text |-> ms_current]
            /\ spc' = "returned"
            /\ UNCHANGED <<clients, in_flight, error>>
    /\ UNCHANGED <<api_key, calls, controller, scorer, pair, entry, sargs, initial_text,
                   n_done, ms_current, batch_results>>

\* lines 301-309: the next prompt, or the return after the last
batch_reflect ==
    /\ spc = "caller"
    /\ entry = "batch_reflect"
    /\ IF n_done < Len(sargs.prompts)
       THEN /\ ReflectBegin(Verbatim(sargs.prompts[n_done + 1]))
            /\ UNCHANGED ret
       ELSE /\ ret' = [kind |-> "list", records |-> batch_results]
            /\ spc' = "returned"
            /\ UNCHANGED <<clients, in_flight, error>>
    /\ UNCHANGED <<api_key, calls, controller, scorer, pair, entry, sargs, initial_text,
                   n_done, ms_current, batch_results>>

\* variant: the reflection prompt embeds the prompt, not the first response
FirstCallReturns_ReflectsOnPrompt(text) ==
    /\ spc = "first_call"
    /\ calls' = Append(calls, FlowCallRecord("text", text))
    /\ initial_text' = text
    /\ in_flight' = reflection_prompt(sargs.prompt)
    /\ spc' = "second_call"
    /\ UNCHANGED <<api_key, clients, controller, scorer, pair, entry, sargs, n_done,
                   ms_current, batch_results, ret, error>>

\* lines 28-39: the first call returns, the second call is made
FirstCallReturns(text) ==
    /\ spc = "first_call"
    /\ calls' = Append(calls, FlowCallRecord("text", text))
    /\ initial_text' = text
    /\ in_flight' = reflection_prompt(text)
    /\ spc' = "second_call"
    /\ UNCHANGED <<api_key, clients, controller, scorer, pair, entry, sargs, n_done,
                   ms_current, batch_results, ret, error>>

\* lines 36-42: the second call returns, reflect_and_improve returns the pair
SecondCallReturns(text) ==
    /\ spc = "second_call"
    /\ calls' = Append(calls, FlowCallRecord("text", text))
    /\ in_flight' = NoCall
    /\ ReflectReturn(initial_text, text)
    /\ UNCHANGED <<api_key, clients, controller, scorer, pair, entry, sargs, initial_text,
                   error>>

\* variant: reflect_and_improve catches the exception and returns what it has
ReflectCallRaises_ReturnsPartial ==
    /\ spc \in {"first_call", "second_call"}
    /\ calls' = Append(calls, FlowCallRecord("raise", ""))
    /\ in_flight' = NoCall
    /\ ReflectReturn(initial_text, "")
    /\ UNCHANGED <<api_key, clients, controller, scorer, pair, entry, sargs, initial_text,
                   error>>

\* variant: batch_reflect skips a prompt whose call raised and goes on
ReflectCallRaises_BatchSkips ==
    /\ spc \in {"first_call", "second_call"}
    /\ calls' = Append(calls, FlowCallRecord("raise", ""))
    /\ in_flight' = NoCall
    /\ IF entry = "batch_reflect"
       THEN /\ n_done' = n_done + 1
            /\ spc' = "caller"
            /\ UNCHANGED error
       ELSE /\ spc' = "raised"
            /\ error' = "GenerationError"
            /\ UNCHANGED n_done
    /\ UNCHANGED <<api_key, clients, controller, scorer, pair, entry, sargs, initial_text,
                   ms_current, batch_results, ret>>

\* generate_content raises (either call): no frame of the call stack handles
\* the exception, it reaches the caller
ReflectCallRaises ==
    /\ spc \in {"first_call", "second_call"}
    /\ calls' = Append(calls, FlowCallRecord("raise", ""))
    /\ in_flight' = NoCall
    /\ spc' = "raised"
    /\ error' = "GenerationError"
    /\ UNCHANGED <<api_key, clients, controller, scorer, pair, entry, sargs, initial_text,
                   n_done, ms_current, batch_results, ret>>

\* any of the five entry points invoked
InitEntry ==
    /\ ServiceInit
    /\ PairIdle
    /\ ScorerIdle
    /\ \/ ControllerInit /\ entry = "improved_multi_step_reflection" /\ FlowIdle
       \/ ControllerIdle /\ FlowInit

NextEntry ==
    \/ Enter
    \/ LoopHead
    \/ \E text \in ServiceTexts : GenerateReturns(text)
    \/ \E text \in ServiceTexts : RecoveryReturns(text)
    \/ CallRaises
    \/ CallMalformed
    \/ reflect_and_improve
    \/ compare_responses
    \/ multi_step_reflection
    \/ batch_reflect
    \/ \E text \in FlowTexts : FirstCallReturns(text)
    \/ \E text \in FlowTexts : SecondCallReturns(text)
    \/ ReflectCallRaises

SpecEntry == InitEntry /\ [][NextEntry]_vars

(***************************************************************************)
(* validate_content_quality on its own (lines 203-230): a pure function of *)
(* its argument.  The argument is put together from up to MaxFragments     *)
(* fragments, so that short, padded, clean and phrase-laden responses all  *)
(* occur, with up to eight matched phrases.                                *)
(***************************************************************************)
\* largest number of fragments in a response
MaxFragments == 3

FragClean == "Gradient descent fits the weights of a network by small steps. "
FragThanks == "Thank you for the feedback. "
FragMinor == "MINOR SUGGESTIONS follow. "
FragRevise == "Please revise the text. "
FragExcellent == "This response is excellent. "
FragWhy == "Why this revised response works: improve the document. "
FragPad == "   "
FragShort == "Short."

Fragments ==
    {FragClean, FragThanks, FragMinor, FragRevise, FragExcellent, FragWhy,
     FragPad, FragShort}

\* the response the fragments make up
RECURSIVE Join(_)
Join(parts) == IF parts = <<>> THEN "" ELSE Head(parts) \o Join(Tail(parts))

\* validate_content_quality(response) is about to be called
QualityInit ==
    /\ q_parts \in SeqsUpTo(Fragments, MaxFragments)
    /\ q_pc = "call"
    /\ q_score = ScoreZero

\* lines 213-230: the call returns its score
ScoreQuality ==
    /\ q_pc = "call"
    /\ q_score' = validate_content_quality(Join(q_parts))
    /\ q_pc' = "returned"
    /\ UNCHANGED <<api_key, in_flight, calls, clients, controller, flow, pair, q_parts,
                   keywords, relevance>>

InitQuality ==
    /\ ServiceInit
    /\ PairIdle
    /\ ControllerIdle
    /\ FlowIdle
    /\ entry = "validate_content_quality"
    /\ QualityInit
    /\ KeywordsIdle
    /\ RelevanceIdle

NextQuality == ScoreQuality

SpecQuality == InitQuality /\ [][NextQuality]_vars

(***************************************************************************)
(* extract_keywords (lines 232-245) and validate_context_maintenance       *)
(* (lines 179-201) on their own: pure functions of their arguments.  The   *)
(* texts are put together from up to MaxWords tokens separated by blanks:  *)
(* keywords with upper-case letters and surrounding punctuation, a stop    *)
(* word longer than three letters, a word of three letters with a full     *)
(* stop.                                                                   *)
(***************************************************************************)
\* largest number of tokens in a text
MaxWords == 3

WordMachine == "Machine"
WordLearning == "(learning),"
WordData == "data"
WordThese == "These"
WordCat == "cat."

Words == {WordMachine, WordLearning, WordData, WordThese, WordCat}

\* the text the tokens make up
RECURSIVE JoinWords(_)
JoinWords(ws) ==
    IF ws = <<>> THEN ""
    ELSE IF Len(ws) = 1 THEN Head(ws)
    ELSE Head(ws) \o " " \o JoinWords(Tail(ws))

\* the second arguments of validate_context_maintenance
ResponseWordings ==
    {<<>>,
     <<WordMachine>>,
     <<WordData, WordLearning>>,
     <<WordCat, WordThese>>,
     <<WordMachine, WordLearning, WordData, WordThese>>,
     <<WordMachine, WordData, WordMachine, WordCat>>}

\* extract_keywords(text) is about to be called
KeywordsInit ==
    /\ k_words \in SeqsUpTo(Words, MaxWords)
    /\ k_pc = "call"
    /\ k_keywords = {}

\* lines 237-245: the call returns its set
ExtractKeywords ==
    /\ k_pc = "call"
    /\ k_keywords' = extract_keywords(JoinWords(k_words))
    /\ k_pc' = "returned"
    /\ UNCHANGED <<api_key, in_flight, calls, clients, controller, flow, pair, quality,
                   relevance, k_words>>

InitKeywords ==
    /\ ServiceInit
    /\ PairIdle
    /\ ControllerIdle
    /\ FlowIdle
    /\ entry = "extract_keywords"
    /\ QualityIdle
    /\ KeywordsInit
    /\ RelevanceIdle

NextKeywords == ExtractKeywords

SpecKeywords == InitKeywords /\ [][NextKeywords]_vars

\* validate_context_maintenance(original, response) is about to be called
RelevanceInit ==
    /\ r_original \in SeqsUpTo(Words, MaxWords)
    /\ r_response \in ResponseWordings
    /\ r_pc = "call"
    /\ r_score = ScoreZero
    /\ r_back = ScoreZero

\* lines 190-201: the call returns its score
ScoreRelevance ==
    /\ r_pc = "call"
    /\ r_score' = validate_context_maintenance(JoinWords(r_original), JoinWords(r_response))
    /\ r_pc' = "scored"
    /\ UNCHANGED <<api_key, in_flight, calls, clients, controller, flow, pair, quality,
                   keywords, r_original, r_response, r_back>>

\* lines 190-201: a second call with the arguments exchanged
ScoreRelevanceBack ==
    /\ r_pc = "scored"
    /\ r_back' = validate_context_maintenance(JoinWords(r_response), JoinWords(r_original))
    /\ r_pc' = "both"
    /\ UNCHANGED <<api_key, in_flight, calls, clients, controller, flow, pair, quality,
                   keywords, r_original, r_response, r_score>>

InitRelevance ==
    /\ ServiceInit
    /\ PairIdle
    /\ ControllerIdle
    /\ FlowIdle
    /\ entry = "validate_context_maintenance"
    /\ QualityIdle
    /\ KeywordsIdle
    /\ RelevanceInit

NextRelevance ==
    \/ ScoreRelevance
    \/ ScoreRelevanceBack

SpecRelevance == InitRelevance /\ [][NextRelevance]_vars

(***************************************************************************)
(* Two invocations of improved_multi_step_reflection running concurrently  *)
(* (two threads or tasks of a host).  The function has no module-level or  *)
(* default-argument state: client, results, current_response and           *)
(* iteration_count are locals of the invocation (lines 63-75), so each     *)
(* invocation is a record of its own; only the environment is shared.      *)
(* RunStep is the controller of lines 58-177 as a function of one          *)
(* invocation's record and of the event it sees.                           *)
(***************************************************************************)
\* largest value of the steps argument of a concurrent invocation
MaxPairSteps == 2

\* the max_iterations=5 of the signature (line 44)
DefaultMaxIterations == 5

\* the invocations
RunIds == {1, 2}

\* the prompt of each invocation and the texts the service answers it with
PairPrompt(i) ==
    IF i = 1 THEN "Explain machine learning basics." ELSE "Why is it so?"
PairTexts(i) == IF i = 1 THEN {TextGoodA, TextOffTopic} ELSE {TextGoodB, TextMeta}

\* events an invocation sees: its own next statement, or the end of its
\* outstanding call
Proceed == [kind |-> "proceed", text |-> ""]
Returned_(text) == [kind |-> "text", text |-> text]
Raised == [kind |-> "raise", text |-> ""]

\* the invocation just called (line 44)
NewRun(p, n, m) ==
    [prompt |-> p, steps |-> n, max_iterations |-> m, pc |-> "entry",
     step_num |-> 0, current_response |-> "", iteration_count |-> 0,
     results |-> NewResults(""), in_flight |-> NoCall, got |-> <<>>,
     overlapped |-> FALSE]

\* lines 143-165
RunAccept(run, improved_response, context_score, content_score) ==
    LET step_result == StepResult(run.step_num, run.current_response,
                                  improved_response, context_score, content_score)
        appended == [run.results EXCEPT !.steps = Append(@, step_result)]
        limit == run.iteration_count + 1 >= run.max_iterations
    IN  [run EXCEPT !.current_response = improved_response,
                    !.iteration_count = @ + 1,
                    !.in_flight = NoCall,
                    !.results = IF limit
                                THEN Finalize(appended, improved_response,
                                              run.iteration_count + 1)
                                ELSE appended,
                    !.pc = IF limit THEN "returned" ELSE "loop"]

\* lines 167-177
RunAbort(run) ==
    [run EXCEPT !.results = Finalize(run.results, run.current_response,
                                     run.iteration_count),
                !.in_flight = NoCall,
                !.pc = "returned"]

\* lines 58-177: one statement block of one invocation
RunStep(run, ev) ==
    CASE run.pc = "entry" ->
            IF ~api_key THEN [run EXCEPT !.pc = "raised"]
            ELSE [run EXCEPT !.pc = "loop",
                             !.results = NewResults(run.prompt),
                             !.current_response = run.prompt]
      [] run.pc = "loop" ->
            IF run.step_num + 1 <= run.steps
            THEN [run EXCEPT !.step_num = @ + 1,
                             !.in_flight = enhanced_reflection_prompt(run.prompt,
                                                                      run.current_response),
                             !.pc = "generate"]
            ELSE [run EXCEPT !.results = Finalize(run.results, run.current_response,
                                                  run.iteration_count),
                             !.pc = "returned"]
      [] run.pc = "generate" /\ ev.kind = "text" ->
            LET context_score == ContextScoreOf[run.prompt][ev.text]
                content_score == ContentScoreOf[ev.text]
                seen == [run EXCEPT !.got = Append(@, ev)]
            IN  IF NeedsRecovery(context_score, content_score)
                THEN [seen EXCEPT !.in_flight = recovery_prompt(run.prompt,
                                                                run.current_response),
                                  !.pc = "recovery"]
                ELSE RunAccept(seen, ev.text, context_score, content_score)
      [] run.pc = "recovery" /\ ev.kind = "text" ->
            RunAccept([run EXCEPT !.got = Append(@, ev)], ev.text,
                      ContextScoreOf[run.prompt][ev.text],
                      ContentScoreOf[ev.text])
      [] run.pc \in {"generate", "recovery"} /\ ev.kind = "raise" ->
            RunAbort([run EXCEPT !.got = Append(@, ev)])
      [] OTHER -> run

\* notes on invocation i that it moved while a call of the other invocation
\* was outstanding
Overlap(run, i) ==
    [run EXCEPT !.overlapped =
        @ \/ \E j \in RunIds \ {i} : runs[j].pc \in {"generate", "recovery"}]

\* variant: results is one module-level dict that both invocations append to
Deliver_SharedResults(i, ev) ==
    LET mine == Overlap(RunStep(runs[i], ev), i)
    IN  runs' = [j \in RunIds |->
                    IF j = i THEN mine
                    ELSE [runs[j] EXCEPT !.results.steps = mine.results.steps]]

\* the event reaches invocation i: only its own locals change
Deliver(i, ev) == runs' = [runs EXCEPT ![i] = Overlap(RunStep(runs[i], ev), i)]

PairInit ==
    runs \in {<<NewRun(PairPrompt(1), n1, DefaultMaxIterations),
                NewRun(PairPrompt(2), n2, DefaultMaxIterations)>> :
                  n1 \in 0..MaxPairSteps, n2 \in 0..MaxPairSteps}

\* lines 58-75 of invocation i
PairEnter(i) ==
    /\ runs[i].pc = "entry"
    /\ Deliver(i, Proceed)
    /\ clients' = IF api_key THEN clients + 1 ELSE clients
    /\ UNCHANGED <<api_key, in_flight, calls, controller, flow, scorer>>

\* lines 77-109 or 172-177 of invocation i
PairLoopHead(i) ==
    /\ runs[i].pc = "loop"
    /\ Deliver(i, Proceed)
    /\ UNCHANGED <<api_key, in_flight, calls, clients, controller, flow, scorer>>

\* the outstanding call of invocation i returns text
PairCallReturns(i, text) ==
    /\ runs[i].pc \in {"generate", "recovery"}
    /\ Deliver(i, Returned_(text))
    /\ UNCHANGED <<api_key, in_flight, calls, clients, controller, flow, scorer>>

\* the outstanding call of invocation i raises
PairCallRaises(i) ==
    /\ runs[i].pc \in {"generate", "recovery"}
    /\ Deliver(i, Raised)
    /\ UNCHANGED <<api_key, in_flight, calls, clients, controller, flow, scorer>>

InitPair ==
    /\ ServiceInit
    /\ ControllerIdle
    /\ FlowIdle
    /\ entry = "improved_multi_step_reflection"
    /\ ScorerIdle
    /\ PairInit

NextPair ==
    \/ \E i \in RunIds : PairEnter(i)
    \/ \E i \in RunIds : PairLoopHead(i)
    \/ \E i \in RunIds : \E text \in PairTexts(i) : PairCallReturns(i, text)
    \/ \E i \in RunIds : PairCallRaises(i)

SpecPair == InitPair /\ [][NextPair]_vars

(***************************************************************************)
(* Vocabulary of the properties below.                                     *)
(***************************************************************************)
\* relevance >= 0.7 and quality >= 0.6 for text t against prompt p
TextPasses(p, t) ==
    /\ ContextScoreOf[p][t].num * 10 >= 7 * ContextScoreOf[p][t].den
    /\ ContentScoreOf[t].num * 10 >= 6 * ContentScoreOf[t].den

Returned == pc = "returned"

\* every finished call returned a text
NoCallFailed == \A i \in 1..Len(calls) : calls[i].outcome = "text"

\* the finished calls made in round k, as indexes of the call record
CallsOfRound(k) == {i \in 1..Len(calls) : calls[i].round = k}

\* the last finished call of round k
LastCallOfRound(k) == CHOOSE i \in CallsOfRound(k) : \A j \in CallsOfRound(k) : j <= i

\* the StepResult round k must have recorded, read off the service's record:
\* its output is the text of the round's last call, its input the output of
\* the round before
ExpectedStep(k) ==
    LET output == calls[LastCallOfRound(k)].text
        input == IF k = 1 THEN prompt ELSE calls[LastCallOfRound(k - 1)].text
    IN  StepResult(k, input, output, ContextScoreOf[prompt][output], ContentScoreOf[output])

Min(a, b) == IF a <= b THEN a ELSE b

(***************************************************************************)
(* C1  Happy path: when steps <= max_iterations, max_iterations >= 1,      *)
(* every call returned a text and every returned text scores relevance     *)
(* >= 0.7 and quality >= 0.6, the returned run has total_iterations =      *)
(* steps, exactly steps StepResults, context_maintained and                *)
(* validation_passed true, and the service saw exactly steps calls, none   *)
(* of them a recovery.                                                     *)
(***************************************************************************)
C1_HappyPath ==
    ( /\ Returned
      /\ steps <= max_iterations
      /\ max_iterations >= 1
      /\ \A i \in 1..Len(calls) :
            calls[i].outcome = "text" /\ TextPasses(prompt, calls[i].text) )
    => /\ results.total_iterations = steps
       /\ Len(results.steps) = steps
       /\ results.context_maintained
       /\ results.validation_passed
       /\ Len(calls) = steps
       /\ \A i \in 1..Len(calls) : calls[i].contents.template = "enhanced_reflection"

C1_Witness ==
    /\ Returned
    /\ steps = 3
    /\ max_iterations = 3
    /\ Len(calls) = 3
    /\ \A i \in 1..Len(calls) :
          calls[i].outcome = "text" /\ TextPasses(prompt, calls[i].text)

(***************************************************************************)
(* C2  Iteration ceiling: when no call failed, steps >= 1 and              *)
(* max_iterations >= 1, the returned run executed exactly                  *)
(* min(steps, max_iterations) rounds, whatever the rounds' validation      *)
(* verdicts, and no call of a later round was made.                        *)
(***************************************************************************)
C2_IterationCeiling ==
    (Returned /\ NoCallFailed /\ steps >= 1 /\ max_iterations >= 1)
    => /\ results.total_iterations = Min(steps, max_iterations)
       /\ Len(results.steps) = Min(steps, max_iterations)
       /\ \A i \in 1..Len(calls) : calls[i].round <= Min(steps, max_iterations)
       /\ \A k \in 1..Min(steps, max_iterations) : CallsOfRound(k) # {}

C2_Witness ==
    /\ Returned
    /\ NoCallFailed
    /\ steps = 3
    /\ max_iterations = 2
    /\ results.total_iterations = 2
    /\ Len(results.steps) = 2
    /\ ~results.steps[1].validation_passed
    /\ results.steps[2].validation_passed

(***************************************************************************)
(* C3  total_iterations is capped by both budgets: the returned run has    *)
(* 0 <= total_iterations <= steps and total_iterations <= max_iterations,  *)
(* for every steps >= 0 and max_iterations >= 0.  (Violated by the code    *)
(* for max_iterations = 0: the limit is tested only after a round.)        *)
(***************************************************************************)
C3_CappedByBothBudgets ==
    Returned => /\ 0 <= results.total_iterations
                /\ results.total_iterations <= steps
                /\ results.total_iterations <= max_iterations

(***************************************************************************)
(* C4  Abort on generation failure: once the Generate call of round k has  *)
(* raised, the invocation has returned (the error is not propagated), the  *)
(* failed call is the last call made, and the run holds exactly the k-1    *)
(* StepResults of the earlier rounds, total_iterations = k-1 and           *)
(* final_response = the output of round k-1 (the prompt when k = 1).       *)
(***************************************************************************)
C4_AbortOnGenerateFailure ==
    \A i \in 1..Len(calls) :
        (calls[i].outcome = "raise" /\ calls[i].contents.template = "enhanced_reflection")
        => LET k == calls[i].round
           IN  /\ pc = "returned"
               /\ i = Len(calls)
               /\ in_flight = NoCall
               /\ Len(results.steps) = k - 1
               /\ \A j \in 1..(k - 1) : results.steps[j] = ExpectedStep(j)
               /\ results.total_iterations = k - 1
               /\ results.final_response =
                     IF k = 1 THEN prompt ELSE results.steps[k - 1].output_content
               /\ k = 1 => /\ results.steps = <<>>
                           /\ results.total_iterations = 0
                           /\ results.final_response = results.original_prompt

C4_Witness ==
    /\ Returned
    /\ Len(calls) >= 3
    /\ calls[Len(calls)].outcome = "raise"
    /\ calls[Len(calls)].contents.template = "enhanced_reflection"
    /\ calls[Len(calls)].round = 3
    /\ Len(results.steps) = 2
    /\ \E i \in 1..Len(calls) : calls[i].contents.template = "recovery"

(***************************************************************************)
(* C5  len(steps) = total_iterations in every returned run, aborted or     *)
(* not: every round whose last call returned an accepted text (a passing   *)
(* first candidate, or whatever the recovery returned) counts as one       *)
(* iteration and one StepResult, a failed round as neither.                *)
(***************************************************************************)
CompletedRounds ==
    {k \in 1..step_num :
        /\ CallsOfRound(k) # {}
        /\ LET c == calls[LastCallOfRound(k)]
           IN  /\ c.outcome = "text"
               /\ c.contents.template = "recovery" \/ TextPasses(prompt, c.text)}

C5_StepsEqualIterations ==
    /\ pc \in {"loop", "generate", "recovery"} => Len(results.steps) = iteration_count
    /\ Returned => /\ Len(results.steps) = results.total_iterations
                   /\ results.total_iterations = Cardinality(CompletedRounds)

C5_Witness ==
    /\ Returned
    /\ results.total_iterations = 1
    /\ Len(calls) = 4
    /\ calls[2].contents.template = "recovery"
    /\ calls[4].contents.template = "recovery"
    /\ calls[4].outcome = "raise"

(***************************************************************************)
(* C6  Step numbering: the i-th StepResult has step_number = i, in every   *)
(* state of the run, whatever rounds recovered and wherever it aborted.    *)
(***************************************************************************)
C6_StepNumbering ==
    \A i \in 1..Len(results.steps) : results.steps[i].step_number = i

C6_Witness ==
    /\ Returned
    /\ Len(results.steps) = 2
    /\ steps = 3
    /\ Len(calls) = 4
    /\ calls[1].contents.template = "enhanced_reflection"
    /\ calls[2].contents.template = "recovery"
    /\ calls[4].outcome = "raise"

(***************************************************************************)
(* C7  Every StepResult's validation_passed is (context_score >= 0.7 and   *)
(* content_score >= 0.6) of the scores it records, and these are the       *)
(* scores of its output_content against the original prompt: after a       *)
(* recovery, those of the recovered text, not of the rejected candidate.   *)
(***************************************************************************)
C7_StepVerdict ==
    \A i \in 1..Len(results.steps) :
        LET s == results.steps[i]
        IN  /\ s.validation_passed =
                  ( /\ s.context_score.num * 10 >= 7 * s.context_score.den
                    /\ s.content_score.num * 10 >= 6 * s.content_score.den )
            /\ s.context_score = ContextScoreOf[results.original_prompt][s.output_content]
            /\ s.content_score = ContentScoreOf[s.output_content]

C7_Witness ==
    /\ Returned
    /\ Len(results.steps) = 2
    /\ Len(calls) = 4
    /\ calls[1].text = TextMeta
    /\ calls[2].text = TextGoodA
    /\ results.steps[1].validation_passed
    /\ calls[3].text = TextOffTopic
    /\ calls[4].text = TextMeta
    /\ ~results.steps[2].validation_passed
    /\ results.steps[2].context_score # ContextScoreOf[prompt][TextOffTopic]

(***************************************************************************)
(* C8  Run-level verdict: in a returned run context_maintained holds iff   *)
(* every recorded StepResult has validation_passed (so it holds for a run  *)
(* without StepResults), and validation_passed equals context_maintained.  *)
(***************************************************************************)
C8_RunVerdict ==
    Returned =>
        /\ results.context_maintained =
              (\A i \in 1..Len(results.steps) : results.steps[i].validation_passed)
        /\ results.validation_passed = results.context_maintained
        /\ results.steps = <<>> => results.context_maintained

C8_Witness ==
    /\ Returned
    /\ Len(results.steps) = 2
    /\ results.steps[1].validation_passed
    /\ ~results.steps[2].validation_passed
    /\ ~results.context_maintained
    /\ ~results.validation_passed

(***************************************************************************)
(* C9  Causal chain: in a returned run the first StepResult's input is the *)
(* original prompt, every later input is the previous StepResult's output, *)
(* and final_response is the last output (the original prompt when there   *)
(* is no StepResult).                                                      *)
(***************************************************************************)
C9_CausalChain ==
    Returned =>
        /\ results.original_prompt = prompt
        /\ \A i \in 1..Len(results.steps) :
              results.steps[i].input_content =
                  IF i = 1 THEN results.original_prompt
                  ELSE results.steps[i - 1].output_content
        /\ results.final_response =
              IF results.steps = <<>> THEN results.original_prompt
              ELSE results.steps[Len(results.steps)].output_content

C9_Witness ==
    /\ Returned
    /\ Len(results.steps) = 3
    /\ results.steps[1].output_content = TextGoodA
    /\ results.steps[2].output_content = TextOffTopic
    /\ results.steps[3].output_content = TextGoodB
    /\ results.final_response = TextGoodB

(***************************************************************************)
(* C10  Bounded recovery: in every round the controller issues one         *)
(* Generate call and at most one Recover call, the Recover call directly   *)
(* after the Generate call; a Recover call is issued iff the Generate call *)
(* returned a text with relevance < 0.7 or quality < 0.6.                  *)
(***************************************************************************)
\* the calls issued so far: the finished ones, then the outstanding one
IssuedCalls ==
    [i \in 1..(Len(calls) + (IF in_flight = NoCall THEN 0 ELSE 1)) |->
        IF i <= Len(calls)
        THEN [round |-> calls[i].round, template |-> calls[i].contents.template]
        ELSE [round |-> step_num, template |-> in_flight.template]]

C10_BoundedRecovery ==
    \A k \in 1..step_num :
        LET idx == {i \in DOMAIN IssuedCalls : IssuedCalls[i].round = k}
            first == CHOOSE i \in idx : \A j \in idx : i <= j
            recovered == \E i \in idx : IssuedCalls[i].template = "recovery"
        IN  /\ idx # {}
            /\ Cardinality(idx) <= 2
            /\ IssuedCalls[first].template = "enhanced_reflection"
            /\ \A i \in idx \ {first} :
                  IssuedCalls[i].template = "recovery" /\ i = first + 1
            /\ recovered <=> /\ first <= Len(calls)
                             /\ calls[first].outcome = "text"
                             /\ ~TextPasses(prompt, calls[first].text)

C10_Witness ==
    /\ Len(calls) = 3
    /\ calls[1].round = 1
    /\ calls[1].text = TextOffTopic
    /\ calls[2].round = 1
    /\ calls[2].contents.template = "recovery"
    /\ calls[2].outcome = "text"
    /\ ~TextPasses(prompt, calls[2].text)
    /\ calls[3].round = 2
    /\ calls[3].contents.template = "enhanced_reflection"

(***************************************************************************)
(* C11  Thresholds are advisory: once the Recover call of round k has      *)
(* returned a text that still fails a threshold, round k is accepted: its  *)
(* StepResult is recorded with that text and validation_passed = FALSE,    *)
(* the iteration counter has counted it, and, when k < steps and           *)
(* k < max_iterations, the next round starts from that text (it is the     *)
(* running response at the loop head, or the Generate call of round k+1    *)
(* embeds it); otherwise no further round starts and the run returns that  *)
(* text as final_response.                                                 *)
(***************************************************************************)
C11_ThresholdsAdvisory ==
    \A i \in 1..Len(calls) :
        ( /\ calls[i].contents.template = "recovery"
          /\ calls[i].outcome = "text"
          /\ ~TextPasses(prompt, calls[i].text) )
        => LET k == calls[i].round
               t == calls[i].text
               later == {j \in 1..Len(calls) : calls[j].round = k + 1}
           IN  /\ Len(results.steps) >= k
               /\ results.steps[k].output_content = t
               /\ ~results.steps[k].validation_passed
               /\ iteration_count >= k
               /\ IF k < steps /\ k < max_iterations
                  THEN \/ pc = "loop" /\ step_num = k /\ current_response = t
                       \/ /\ step_num = k + 1
                          /\ in_flight = enhanced_reflection_prompt(prompt, t)
                       \/ /\ later # {}
                          /\ \A j \in later :
                                calls[j].contents.current = t
                                    /\ calls[j].contents.topic = prompt
                  ELSE /\ pc \in {"loop", "returned"}
                       /\ later = {}
                       /\ in_flight = NoCall
                       /\ current_response = t
                       /\ pc = "returned" => results.final_response = t

C11_Witness ==
    /\ pc = "generate"
    /\ step_num = 2
    /\ Len(calls) = 2
    /\ calls[2].contents.template = "recovery"
    /\ calls[2].text = TextOffTopic
    /\ ~TextPasses(prompt, TextOffTopic)
    /\ Len(results.steps) = 1
    /\ ~results.steps[1].validation_passed
    /\ in_flight.current = TextOffTopic

(***************************************************************************)
(* C12  Missing credential is always surfaced: while the credential is     *)
(* absent no entry point returns a value, and the error that reaches the   *)
(* caller is the configuration error, whatever the arguments.  (Violated   *)
(* by the code: multi_step_reflection with steps = 0 and batch_reflect     *)
(* with no prompt return without ever looking at the credential.)          *)
(***************************************************************************)
C12_MissingCredentialSurfaced ==
    ~api_key => /\ pc # "returned"
                /\ spc # "returned"
                /\ spc = "raised" => error = "ValueError"

(***************************************************************************)
(* C13  While the credential is absent no entry point constructs a client  *)
(* or calls the Generation Service; improved_multi_step_reflection raises  *)
(* the configuration error before its loop starts (no round, no            *)
(* StepResult) and never returns a run in its place.                       *)
(***************************************************************************)
C13_NoCallWithoutCredential ==
    ~api_key => /\ calls = <<>>
                /\ in_flight = NoCall
                /\ clients = 0
                /\ spc \notin {"first_call", "second_call"}
                /\ pc \in {"idle", "entry", "raised"}
                /\ step_num = 0
                /\ results.steps = <<>>

C13_Witness ==
    /\ ~api_key
    /\ entry = "improved_multi_step_reflection"
    /\ pc = "raised"
    /\ steps = 2

(***************************************************************************)
(* C14  Simple two-call flow: when reflect_and_improve(prompt) has         *)
(* returned, the service saw exactly two calls, the first with the prompt  *)
(* itself, the second with the reflection prompt embedding the text the    *)
(* first returned, and the value returned is the pair (text of the first   *)
(* call, text of the second call).                                         *)
(***************************************************************************)
C14_TwoCallFlow ==
    (entry = "reflect_and_improve" /\ spc = "returned")
    => /\ Len(calls) = 2
       /\ calls[1].outcome = "text" /\ calls[2].outcome = "text"
       /\ calls[1].contents = Verbatim(sargs.prompt)
       /\ calls[2].contents = reflection_prompt(calls[1].text)
       /\ ret = [kind |-> "pair", initial |-> calls[1].text, improved |-> calls[2].text]
       /\ in_flight = NoCall
       /\ error = "none"

C14_Witness ==
    /\ entry = "reflect_and_improve"
    /\ spc = "returned"
    /\ ret.initial = TextMeta
    /\ ret.improved = TextGoodA

(***************************************************************************)
(* C15  In the simple two-call flow a failure propagates: once the first   *)
(* or the second call of reflect_and_improve has raised, that error has    *)
(* reached the caller, no pair (not even a partial one) was returned, and  *)
(* the failed call is the last call made.                                  *)
(***************************************************************************)
C15_FailurePropagates ==
    entry = "reflect_and_improve" =>
        \A i \in 1..Len(calls) :
            calls[i].outcome = "raise"
            => /\ spc = "raised"
               /\ error = "GenerationError"
               /\ ret = NoValue
               /\ i = Len(calls)
               /\ in_flight = NoCall

C15_Witness ==
    /\ entry = "reflect_and_improve"
    /\ Len(calls) = 2
    /\ calls[1].outcome = "text"
    /\ calls[2].outcome = "raise"
    /\ spc = "raised"

(***************************************************************************)
(* C16  Batch entry point: when batch_reflect(prompts) has returned, it    *)
(* returned len(prompts) records in input order, record i holding          *)
(* prompts[i] and the texts of the two calls made for it; the service saw  *)
(* 2 * len(prompts) calls, calls 2i-1 and 2i being the two-call flow on    *)
(* prompts[i].                                                             *)
(***************************************************************************)
C16_BatchInOrder ==
    (entry = "batch_reflect" /\ spc = "returned")
    => /\ ret.kind = "list"
       /\ Len(ret.records) = Len(sargs.prompts)
       /\ Len(calls) = 2 * Len(sargs.prompts)
       /\ \A i \in 1..Len(sargs.prompts) :
             /\ calls[2 * i - 1].round = i /\ calls[2 * i].round = i
             /\ calls[2 * i - 1].outcome = "text" /\ calls[2 * i].outcome = "text"
             /\ calls[2 * i - 1].contents = Verbatim(sargs.prompts[i])
             /\ calls[2 * i].contents = reflection_prompt(calls[2 * i - 1].text)
             /\ ret.records[i] = [prompt |-> sargs.prompts[i],
                                  initial |-> calls[2 * i - 1].text,
                                  improved |-> calls[2 * i].text]

C16_Witness ==
    /\ entry = "batch_reflect"
    /\ spc = "returned"
    /\ Len(sargs.prompts) = 2
    /\ sargs.prompts[1] # sargs.prompts[2]
    /\ ret.records[1].initial = TextGoodA
    /\ ret.records[1].improved = TextMeta
    /\ ret.records[2].initial = TextMeta
    /\ ret.records[2].improved = TextMeta

(***************************************************************************)
(* C17  Batch failure aborts the batch: once a call for prompt i has       *)
(* raised, that error has reached the caller of batch_reflect, no result   *)
(* list was returned (the i-1 records built so far are dropped), and no    *)
(* call was made for a later prompt.                                       *)
(***************************************************************************)
C17_BatchFailureAborts ==
    entry = "batch_reflect" =>
        \A i \in 1..Len(calls) :
            calls[i].outcome = "raise"
            => /\ spc = "raised"
               /\ error = "GenerationError"
               /\ ret = NoValue
               /\ i = Len(calls)
               /\ in_flight = NoCall
               /\ Len(batch_results) = calls[i].round - 1
               /\ \A j \in 1..Len(calls) : calls[j].round <= calls[i].round

C17_Witness ==
    /\ entry = "batch_reflect"
    /\ Len(sargs.prompts) = 3
    /\ spc = "raised"
    /\ Len(batch_results) = 1
    /\ calls[Len(calls)].round = 2
    /\ calls[Len(calls)].outcome = "raise"

(***************************************************************************)
(* C18  Comparison entry point: compare_responses(initial, improved) is    *)
(* one run of the two-call flow on the comparison template filled with     *)
(* both texts: returned, it made exactly two calls (the template, then the *)
(* reflection on the first text), none of them a validated-loop call, and  *)
(* returned the pair of their texts; a call that raised reached the        *)
(* caller as an error and no pair was returned.                            *)
(***************************************************************************)
C18_CompareIsTwoCallFlow ==
    entry = "compare_responses" =>
        /\ \A i \in 1..Len(calls) :
              /\ calls[i].contents.template \in {"comparison", "reflection"}
              /\ calls[i].outcome = "raise"
                 => /\ spc = "raised" /\ error = "GenerationError"
                    /\ ret = NoValue /\ i = Len(calls) /\ in_flight = NoCall
        /\ pc = "idle" /\ results.steps = <<>>
        /\ Len(calls) <= 2
        /\ spc = "returned"
           => /\ Len(calls) = 2
              /\ calls[1].contents = comparison_prompt(sargs.initial, sargs.improved)
              /\ calls[2].contents = reflection_prompt(calls[1].text)
              /\ ret = [kind |-> "pair", initial |-> calls[1].text,
                        improved |-> calls[2].text]

C18_Witness ==
    /\ entry = "compare_responses"
    /\ spc = "returned"
    /\ sargs.initial = TextGoodB
    /\ sargs.improved = TextOffTopic
    /\ ret.initial # ret.improved

\* the listed phrases each fragment contains, read off the fragment
ListedIn(fragment) ==
    CASE fragment = FragThanks -> {"feedback", "thank you for the feedback"}
      [] fragment = FragMinor -> {"suggestion", "minor suggestions"}
      [] fragment = FragRevise -> {"revise the"}
      [] fragment = FragExcellent -> {"this response is excellent"}
      [] fragment = FragWhy -> {"why this revised response", "improve the document"}
      [] OTHER -> {}

\* the number of listed phrases the response of the scorer contains
MatchCount == Cardinality(UNION {ListedIn(q_parts[i]) : i \in 1..Len(q_parts)})

\* the number of characters of the response without its outer whitespace
TrimmedLen == Len(Strip(Join(q_parts), WhitespaceChars))

HasThanks == \E i \in 1..Len(q_parts) : q_parts[i] = FragThanks

(***************************************************************************)
(* C19 (as stated)  For every response of at least 50 trimmed characters   *)
(* that contains "thank you for the feedback", validate_content_quality    *)
(* returns 0.7.                                                            *)
(***************************************************************************)
C19_ThanksScoresSevenTenths ==
    (q_pc = "returned" /\ TrimmedLen >= MinContentLength /\ HasThanks)
    => q_score = Score(7, 10)

(***************************************************************************)
(* C19 (amended)  For every response of at least 50 trimmed characters     *)
(* that contains "thank you for the feedback", validate_content_quality    *)
(* returns at most 0.4, because the listed phrase "feedback" matches too:  *)
(* it returns max(0.0, 1.0 - 0.3 * matchCount) with matchCount >= 2, which *)
(* is 0.4 when no other listed phrase matches.                             *)
(***************************************************************************)
C19_ThanksScoresAtMostFourTenths ==
    (q_pc = "returned" /\ TrimmedLen >= MinContentLength /\ HasThanks)
    => /\ MatchCount >= 2
       /\ q_score.num * 10 <= 4 * q_score.den
       /\ MatchCount = 2 => q_score = Score(4, 10)
       /\ MatchCount = 3 => q_score = Score(1, 10)
       /\ MatchCount >= 4 => q_score = ScoreZero

C19_Witness ==
    /\ q_pc = "returned"
    /\ q_parts = <<FragClean, FragThanks>>
    /\ q_score = Score(4, 10)

(***************************************************************************)
(* C20  Quality score is bounded and floored: validate_content_quality     *)
(* returns a value in [0.0, 1.0]; 0.0 when the trimmed response is empty   *)
(* or shorter than 50 characters; otherwise 1.0 when no listed phrase      *)
(* matches and max(0.0, 1.0 - 0.3 * matchCount) when matchCount >= 1, so   *)
(* 4 or more matches give exactly 0.0 and never a negative value.          *)
(***************************************************************************)
C20_QualityBoundedAndFloored ==
    q_pc = "returned"
    => /\ q_score.den > 0
       /\ 0 <= q_score.num /\ q_score.num <= q_score.den
       /\ TrimmedLen < MinContentLength => q_score = ScoreZero
       /\ (TrimmedLen >= MinContentLength /\ MatchCount = 0) => q_score = ScoreOne
       /\ (TrimmedLen >= MinContentLength /\ MatchCount \in 1..3)
          => q_score = Score(10 - 3 * MatchCount, 10)
       /\ (TrimmedLen >= MinContentLength /\ MatchCount >= 4) => q_score = ScoreZero

C20_Witness ==
    /\ q_pc = "returned"
    /\ q_parts = <<FragThanks, FragMinor, FragWhy>>
    /\ MatchCount = 6
    /\ q_score = ScoreZero

\* the keyword each token stands for, read off the token ("" for none)
KeywordOf(word) ==
    CASE word = WordMachine -> "machine"
      [] word = WordLearning -> "learning"
      [] word = WordData -> "data"
      [] OTHER -> ""

\* the keywords of a text made of the tokens ws
KeywordsOf(ws) == {KeywordOf(ws[i]) : i \in 1..Len(ws)} \ {""}

\* the rational score equals min(1.0, 1.5 * c / n), or 1.0 when n = 0
IsBoosted(score, c, n) ==
    IF n = 0 THEN score.num = score.den
    ELSE score.num * (BoostDen * n) = score.den * Min(BoostNum * c, BoostDen * n)

(***************************************************************************)
(* C21  Relevance score: validate_context_maintenance returns 1.0 when the *)
(* original prompt has no keywords and otherwise                           *)
(* min(1.0, 1.5 * |original keywords /\ candidate keywords| / |original    *)
(* keywords|); the result lies in [0.0, 1.0] and is 0.0 exactly when the   *)
(* original has keywords and none of them appears in the candidate.        *)
(***************************************************************************)
C21_RelevanceScore ==
    r_pc \in {"scored", "both"}
    => LET original == KeywordsOf(r_original)
           common == original \cap KeywordsOf(r_response)
       IN  /\ r_score.den > 0
           /\ 0 <= r_score.num /\ r_score.num <= r_score.den
           /\ IsBoosted(r_score, Cardinality(common), Cardinality(original))
           /\ r_score.num = 0 <=> (original # {} /\ common = {})

C21_Witness ==
    /\ r_pc = "scored"
    /\ r_original = <<WordData, WordThese, WordMachine>>
    /\ r_response = <<WordMachine, WordData, WordMachine, WordCat>>
    /\ r_score = ScoreOne

(***************************************************************************)
(* C22  Relevance is directional: the overlap is divided by the keyword    *)
(* count of the first argument only, so with A and B sharing a keyword and *)
(* having different keyword counts (and the larger count below the cap)    *)
(* validate_context_maintenance(A, B) differs from                         *)
(* validate_context_maintenance(B, A); such A and B exist.                 *)
(***************************************************************************)
C22_Directional ==
    r_pc = "both"
    => LET ka == KeywordsOf(r_original)
           kb == KeywordsOf(r_response)
           c == Cardinality(ka \cap kb)
           na == Cardinality(ka)
           nb == Cardinality(kb)
       IN  /\ IsBoosted(r_score, c, na)
           /\ IsBoosted(r_back, c, nb)
           /\ (c > 0 /\ na # nb /\ (BoostNum * c < BoostDen * na \/ BoostNum * c < BoostDen * nb))
              => r_score.num * r_back.den # r_back.num * r_score.den

C22_Witness ==
    /\ r_pc = "both"
    /\ r_original = <<WordMachine>>
    /\ r_response = <<WordMachine, WordLearning, WordData, WordThese>>
    /\ r_score = ScoreOne
    /\ r_back = Score(3, 6)

(***************************************************************************)
(* C23  Keyword extraction: extract_keywords returns the set of the        *)
(* whitespace-separated tokens, stripped of surrounding punctuation and    *)
(* lower-cased, minus every token of length <= 3 and every stop word; no   *)
(* returned keyword has length <= 3, none is a stop word, all are lower    *)
(* case, duplicates collapse, and the empty text yields the empty set.     *)
(***************************************************************************)
C23_KeywordExtraction ==
    k_pc = "returned"
    => /\ k_keywords = KeywordsOf(k_words)
       /\ \A w \in k_keywords :
             /\ Len(w) > MinKeywordLength
             /\ w \notin stop_words
             /\ \A i \in 1..Len(w) : CharAt(w, i) \notin DOMAIN LowerOf
             /\ CharAt(w, 1) \notin PunctuationChars
             /\ CharAt(w, Len(w)) \notin PunctuationChars
       /\ Cardinality(k_keywords) <= Cardinality({k_words[i] : i \in 1..Len(k_words)})
       /\ k_words = <<>> => k_keywords = {}

C23_Witness ==
    /\ k_pc = "returned"
    /\ k_words = <<WordLearning, WordCat, WordLearning>>
    /\ k_keywords = {"learning"}

\* invocation i executed alone and given the service responses got
RECURSIVE Replay(_, _)
Replay(run, got) ==
    IF run.pc \in {"entry", "loop"} THEN Replay(RunStep(run, Proceed), got)
    ELSE IF run.pc \in {"generate", "recovery"} /\ got # <<>>
         THEN Replay(RunStep(run, Head(got)), Tail(got))
         ELSE run

Alone(i) ==
    Replay(NewRun(runs[i].prompt, runs[i].steps, runs[i].max_iterations), runs[i].got)

PromptHeld ==
    /\ pc \notin {"idle", "entry", "raised"} => results.original_prompt = prompt
    /\ in_flight # NoCall => in_flight.topic = prompt
    /\ \A i \in 1..Len(calls) : calls[i].contents.topic = prompt
    /\ \A k \in 1..Len(results.steps) :
          results.steps[k].context_score
              = ContextScoreOf[prompt][results.steps[k].output_content]

(***************************************************************************)
(* C25  The original prompt is immutable for the whole run: no step of     *)
(* improved_multi_step_reflection changes the prompt argument or, once     *)
(* set, original_prompt; in every state original_prompt equals the prompt  *)
(* argument, every Generate and every Recover prompt embeds it, and the    *)
(* context score of every StepResult is the relevance of its output to it  *)
(* (not to the running response).                                          *)
(***************************************************************************)
C25_OriginalPromptImmutable ==
    /\ []PromptHeld
    /\ [][/\ prompt' = prompt
          /\ pc \notin {"idle", "entry"}
             => results'.original_prompt = results.original_prompt]_vars

C25_Witness ==
    /\ pc = "returned"
    /\ Len(results.steps) = 2
    /\ \E i \in 1..Len(calls) : calls[i].contents.template = "recovery"
    /\ results.steps[2].input_content = TextOffTopic
    /\ results.steps[2].output_content = TextGoodA
    /\ results.steps[2].context_score
          # validate_context_maintenance(TextOffTopic, TextGoodA)
    /\ results.original_prompt = "Explain machine learning basics."

\* no round is run twice: the calls issued so far are in round order, with at
\* most one Generate call and at most one Recover call per round
NoRoundRepeated ==
    /\ \A i, j \in DOMAIN IssuedCalls :
          i < j => \/ IssuedCalls[i].round < IssuedCalls[j].round
                   \/ /\ IssuedCalls[i].round = IssuedCalls[j].round
                      /\ IssuedCalls[i].template = "enhanced_reflection"
                      /\ IssuedCalls[j].template = "recovery"
    /\ Len(IssuedCalls) <= 2 * steps

(***************************************************************************)
(* C26  Termination: if every Generation Service call eventually returns   *)
(* or raises, an invocation of improved_multi_step_reflection that has     *)
(* its credential always returns a run, whatever steps, max_iterations,    *)
(* validation failures and service errors, after at most 2 * steps calls;  *)
(* failing validation never repeats a round.  (Without the credential the  *)
(* invocation ends at once with the configuration error.)                  *)
(***************************************************************************)
C26_Termination ==
    /\ []NoRoundRepeated
    /\ [](pc = "raised" => ~api_key /\ calls = <<>>)
    /\ api_key ~> Returned
    /\ <>(pc \in {"returned", "raised"})

C26_Witness ==
    /\ Returned
    /\ steps = 3
    /\ Len(calls) = 2 * steps
    /\ \A k \in 1..3 : ~results.steps[k].validation_passed
    /\ results.total_iterations = 3

\* where the run stands in its round, read off the service's record
RoundOrder ==
    /\ in_flight # NoCall <=> pc \in {"generate", "recovery"}
    /\ pc = "generate"
       => /\ step_num >= 1
          /\ Len(results.steps) = step_num - 1
          /\ \A i \in 1..Len(calls) : calls[i].round < step_num
          /\ in_flight = enhanced_reflection_prompt(prompt,
                 IF step_num = 1 THEN prompt
                 ELSE results.steps[step_num - 1].output_content)
    /\ pc = "recovery"
       => /\ Len(results.steps) = step_num - 1
          /\ CallsOfRound(step_num) = {Len(calls)}
          /\ calls[Len(calls)].contents.template = "enhanced_reflection"
          /\ calls[Len(calls)].outcome = "text"
          /\ ~TextPasses(prompt, calls[Len(calls)].text)
          /\ in_flight.template = "recovery"
    /\ \A k \in 1..Len(results.steps) :
          LET r == CallsOfRound(k)
          IN  /\ r # {}
              /\ \A i \in r : calls[i].outcome = "text"
              /\ \A i \in r : i # LastCallOfRound(k)
                    => /\ calls[i].contents.template = "enhanced_reflection"
                       /\ ~TextPasses(prompt, calls[i].text)
                       /\ calls[LastCallOfRound(k)].contents.template = "recovery"
              /\ results.steps[k].output_content = calls[LastCallOfRound(k)].text
              /\ \A i \in 1..Len(calls) :
                    calls[i].round = k + 1 /\ calls[i].contents.template = "enhanced_reflection"
                    => calls[i].contents.current = results.steps[k].output_content

\* a call is issued only when none is outstanding or as the outstanding one ends
OneCallAtATime ==
    (pc' \in {"generate", "recovery"} /\ (pc' # pc \/ in_flight' # in_flight))
    => /\ in_flight' # NoCall
       /\ in_flight = NoCall \/ Len(calls') = Len(calls) + 1

(***************************************************************************)
(* C27  Rounds are strictly sequential: the Generate call of round k+1 is  *)
(* issued only after the StepResult of round k has been appended and its   *)
(* prompt embeds the output accepted in round k; within a round the order  *)
(* is Generate, Validate, optional Recover, Accept; the run never has two  *)
(* Generation Service calls outstanding.                                   *)
(***************************************************************************)
C27_RoundsSequential ==
    /\ []RoundOrder
    /\ [][OneCallAtATime]_vars

C27_Witness ==
    /\ pc = "generate"
    /\ step_num = 3
    /\ Len(results.steps) = 2
    /\ Cardinality(CallsOfRound(2)) = 2
    /\ Cardinality(CallsOfRound(1)) = 1
    /\ in_flight.current = results.steps[2].output_content
    /\ results.steps[2].output_content # results.steps[1].output_content

(***************************************************************************)
(* C28  Failure during recovery: when the Generate call of round k         *)
(* returned a candidate that fails validation and the Recover call then    *)
(* raised, the run has aborted as for a Generate failure: it returned, no  *)
(* StepResult exists for round k, the candidate is discarded,              *)
(* total_iterations = k-1, final_response is the running response from     *)
(* before round k, and no error reached the caller.                        *)
(***************************************************************************)
C28_RecoveryFailureAborts ==
    \A i \in 1..Len(calls) :
        (calls[i].contents.template = "recovery" /\ calls[i].outcome = "raise")
        => LET k == calls[i].round
               before == IF k = 1 THEN prompt ELSE results.steps[k - 1].output_content
           IN  /\ i = Len(calls)
               /\ i >= 2
               /\ calls[i - 1].round = k
               /\ calls[i - 1].outcome = "text"
               /\ ~TextPasses(prompt, calls[i - 1].text)
               /\ in_flight = NoCall
               /\ pc = "returned"
               /\ Len(results.steps) = k - 1
               /\ \A n \in 1..Len(results.steps) : results.steps[n] = ExpectedStep(n)
               /\ results.total_iterations = k - 1
               /\ iteration_count = k - 1
               /\ results.final_response = before
               /\ current_response = before

C28_Witness ==
    /\ Len(calls) = 3
    /\ calls[3].contents.template = "recovery"
    /\ calls[3].outcome = "raise"
    /\ calls[3].round = 2
    /\ calls[2].text = TextOffTopic
    /\ results.final_response = TextGoodA
    /\ pc = "returned"

\* the calls whose text a StepResult records: the last call of each stored round
UsedCalls == {LastCallOfRound(n) : n \in 1..Len(results.steps)}

\* the running response from before round k
ResponseBefore(k) == IF k = 1 THEN prompt ELSE calls[LastCallOfRound(k - 1)].text

(***************************************************************************)
(* C29  The rejected first candidate of a round is never used: the Recover *)
(* prompt is built from the original prompt and the running response from  *)
(* before the round, not from the candidate; the candidate's call is not   *)
(* the source of any StepResult, and the candidate is neither input nor    *)
(* output of a StepResult, nor the running or final response (texts are    *)
(* compared by value, so this is stated for a candidate that is not also   *)
(* the text of a call whose result is stored).                             *)
(***************************************************************************)
C29_RejectedCandidateUnused ==
    \A i \in 1..Len(calls) :
        ( /\ calls[i].contents.template = "enhanced_reflection"
          /\ calls[i].outcome = "text"
          /\ ~TextPasses(prompt, calls[i].text) )
        => LET k == calls[i].round
               candidate == calls[i].text
               recover == recovery_prompt(prompt, ResponseBefore(k))
           IN  /\ i \notin UsedCalls
               /\ \A n \in 1..Len(results.steps) : results.steps[n] = ExpectedStep(n)
               /\ IF i = Len(calls)
                  THEN pc = "recovery" /\ in_flight = recover
                  ELSE calls[i + 1].round = k /\ calls[i + 1].contents = recover
               /\ candidate \notin {calls[j].text : j \in UsedCalls}
                  => /\ \A n \in 1..Len(results.steps) :
                          /\ results.steps[n].input_content # candidate
                          /\ results.steps[n].output_content # candidate
                     /\ current_response # candidate
                     /\ results.final_response # candidate
                     /\ in_flight # NoCall => in_flight.current # candidate

C29_Witness ==
    /\ pc = "returned"
    /\ Len(calls) = 3
    /\ calls[1].text = TextOffTopic
    /\ calls[2].contents = recovery_prompt(prompt, prompt)
    /\ calls[2].text = TextGoodA
    /\ calls[3].contents = enhanced_reflection_prompt(prompt, TextGoodA)
    /\ calls[3].text = TextGoodB
    /\ Len(results.steps) = 2
    /\ results.final_response = TextGoodB

(***************************************************************************)
(* C30  Any exception raised inside a round, a failed service call as well *)
(* as an error while scoring a malformed (non-text) service output, in the *)
(* Generate or in the Recover half of the round, is handled as Abort: the  *)
(* loop stops (no further call), nothing is appended for that round, and   *)
(* the accumulated run is returned without an error reaching the caller.   *)
(***************************************************************************)
C30_AnyExceptionAborts ==
    /\ pc = "raised" => calls = <<>> /\ ~api_key
    /\ \A i \in 1..Len(calls) :
          calls[i].outcome \in {"raise", "malformed"}
          => LET k == calls[i].round
             IN  /\ i = Len(calls)
                 /\ in_flight = NoCall
                 /\ pc = "returned"
                 /\ step_num = k
                 /\ Len(results.steps) = k - 1
                 /\ \A n \in 1..(k - 1) : results.steps[n] = ExpectedStep(n)
                 /\ results.total_iterations = k - 1
                 /\ results.final_response = ResponseBefore(k)
                 /\ results.context_maintained
                      = \A n \in 1..(k - 1) : results.steps[n].validation_passed

C30_Witness ==
    /\ pc = "returned"
    /\ Len(calls) = 4
    /\ calls[4].outcome = "malformed"
    /\ calls[4].contents.template = "recovery"
    /\ calls[4].round = 3
    /\ Len(results.steps) = 2
    /\ results.final_response = results.steps[2].output_content

(***************************************************************************)
(* C31  Quality threshold in terms of matches: a response passes the       *)
(* quality threshold (score >= 0.6) if and only if its trimmed length is   *)
(* at least 50 characters and at most one listed phrase occurs in it,      *)
(* where a phrase that contains another listed phrase ("thank you for the  *)
(* feedback" contains "feedback", "minor suggestions" contains             *)
(* "suggestion") counts as a match of both.                                *)
(***************************************************************************)
C31_QualityThresholdInMatches ==
    q_pc = "returned"
    => ( ScoreGE(q_score, ContentThresholdTenths)
         <=> (TrimmedLen >= MinContentLength /\ MatchCount <= 1) )

C31_Witness ==
    /\ q_pc = "returned"
    /\ q_parts = <<FragClean, FragMinor>>
    /\ TrimmedLen >= MinContentLength
    /\ MatchCount = 2
    /\ ScoreLT(q_score, ContentThresholdTenths)

(***************************************************************************)
(* C32  Unvalidated multi-step flow: with the credential present,          *)
(* multi_step_reflection(prompt, steps = n) whose calls never fail returns *)
(* after exactly 2n calls made as n two-call cycles in sequence; the first *)
(* cycle starts from the prompt, every later cycle from the improved text  *)
(* of the cycle before, and the value returned is the improved text of the *)
(* last cycle; with n = 0 no call is made and the prompt is returned       *)
(* unchanged.  A call that fails is the last call made and its error       *)
(* reaches the caller, who gets no value.                                  *)
(***************************************************************************)
C32_MultiStepFlow ==
    (entry = "multi_step_reflection" /\ api_key)
    => /\ Len(calls) <= 2 * sargs.steps
       /\ spc = "returned"
          => /\ Len(calls) = 2 * sargs.steps
             /\ clients = sargs.steps
             /\ \A i \in 1..sargs.steps :
                   /\ calls[2 * i - 1].round = i /\ calls[2 * i].round = i
                   /\ calls[2 * i - 1].outcome = "text" /\ calls[2 * i].outcome = "text"
                   /\ calls[2 * i - 1].contents =
                          Verbatim(IF i = 1 THEN sargs.prompt ELSE calls[2 * i - 2].text)
                   /\ calls[2 * i].contents = reflection_prompt(calls[2 * i - 1].text)
             /\ ret = [kind |-> "text",
                       text |-> IF sargs.steps = 0 THEN sargs.prompt
                                ELSE calls[2 * sargs.steps].text]
             /\ in_flight = NoCall
             /\ error = "none"
       /\ \A i \in 1..Len(calls) :
             calls[i].outcome = "raise"
             => /\ spc = "raised"
                /\ error = "GenerationError"
                /\ ret = NoValue
                /\ i = Len(calls)
                /\ in_flight = NoCall

C32_Witness ==
    /\ entry = "multi_step_reflection"
    /\ api_key
    /\ spc = "returned"
    /\ sargs.steps = 2
    /\ Len(calls) = 4
    /\ calls[2].text = TextMeta
    /\ calls[3].contents = Verbatim(TextMeta)
    /\ calls[4].text = TextGoodA
    /\ ret.text = TextGoodA

====
